---- MODULE Spec2Model ----
(***************************************************************************)
(* Model of the VoiceOver HTTP client (src/voiceover_client.py) and of the *)
(* scripted walkthrough (src/main.py).                                     *)
(*                                                                         *)
(* Python values are tagged records: None, bool, str (a sequence of        *)
(* one-character strings, so that lower() and substring search are         *)
(* computed character by character), list and dict (a function from keys   *)
(* to values).  URL paths and dictionary keys are program constants and    *)
(* are written as TLA+ strings.                                            *)
(***************************************************************************)
EXTENDS Integers, Sequences, FiniteSets, TLC

VARIABLES
  prog,                       \* which entry point runs
  pc,                         \* position inside that entry point
  cmd,                        \* llm_response handed to execute_llm_command
  ret,                        \* VoiceOverResponse returned by the last wrapper call
  sent,                       \* HTTP requests issued, in order: all of them,
                              \* in main.py those since the navigation step
                              \* (4.1, 4.2, 4.3) now running was begun
  last,                       \* the server's answer to the last request
  copilot_opened,
  open_icon_found,
  upload_control_found,
  decorative_image_detected,
  navigation_attempts,
  focus_check_attempts

vars == <<prog, pc, cmd, ret, sent, last, copilot_opened, open_icon_found,
          upload_control_found, decorative_image_detected,
          navigation_attempts, focus_check_attempts>>

script_locals == <<copilot_opened, open_icon_found, upload_control_found,
                   decorative_image_detected, navigation_attempts,
                   focus_check_attempts>>

----------------------------------------------------------------------------
(* Bounds *)

\* A spoken item text is a concatenation of at most MaxFrags fragments.
MaxFrags == 2

----------------------------------------------------------------------------
(* Python values *)

None == [t |-> "None"]
Bool(b) == [t |-> "bool", b |-> b]
Str(s) == [t |-> "str", s |-> s]
List(l) == [t |-> "list", l |-> l]
Dict(d) == [t |-> "dict", d |-> d]

\* bool(v) as Python computes it
Truthy(v) ==
  CASE v.t = "None" -> FALSE
    [] v.t = "bool" -> v.b
    [] v.t = "str"  -> Len(v.s) > 0
    [] v.t = "list" -> Len(v.l) > 0
    [] v.t = "dict" -> DOMAIN v.d # {}

\* d.get(key, default)
Get(d, key, default) == IF key \in DOMAIN d THEN d[key] ELSE default

\* type(v).__name__
TypeName(v) ==
  CASE v.t = "None" -> <<"N", "o", "n", "e", "T", "y", "p", "e">>
    [] v.t = "bool" -> <<"b", "o", "o", "l">>
    [] v.t = "str"  -> <<"s", "t", "r">>
    [] v.t = "list" -> <<"l", "i", "s", "t">>
    [] v.t = "dict" -> <<"d", "i", "c", "t">>

\* str(v) inside an f-string, for the values a command's action can take
PyStr(v) ==
  CASE v.t = "None" -> <<"N", "o", "n", "e">>
    [] v.t = "str"  -> v.s
    [] v.t = "bool" -> IF v.b THEN <<"T", "r", "u", "e">>
                              ELSE <<"F", "a", "l", "s", "e">>
    [] OTHER -> <<"<", ">">>

UpperCase == <<"A", "B", "C", "D", "E", "F", "G", "H", "I", "J", "K", "L", "M",
               "N", "O", "P", "Q", "R", "S", "T", "U", "V", "W", "X", "Y", "Z">>
LowerCase == <<"a", "b", "c", "d", "e", "f", "g", "h", "i", "j", "k", "l", "m",
               "n", "o", "p", "q", "r", "s", "t", "u", "v", "w", "x", "y", "z">>

\* str.lower() leaves every character in place (plausible slip: lower() dropped)
lower_identity(s) == s

\* str.lower()
lower(s) ==
  [i \in 1..Len(s) |->
     IF \E k \in 1..26 : UpperCase[k] = s[i]
       THEN LowerCase[CHOOSE k \in 1..26 : UpperCase[k] = s[i]]
       ELSE s[i]]

\* str.upper()
upper(s) ==
  [i \in 1..Len(s) |->
     IF \E k \in 1..26 : LowerCase[k] = s[i]
       THEN UpperCase[CHOOSE k \in 1..26 : LowerCase[k] = s[i]]
       ELSE s[i]]

\* `sub in s` for two strings
In(sub, s) ==
  \E i \in 0..(Len(s) - Len(sub)) : SubSeq(s, i + 1, i + Len(sub)) = sub

----------------------------------------------------------------------------
(* The server: what one HTTP exchange can produce *)

base_url == "http://localhost:3000"

\* requests raises ConnectionError: nothing is listening
Refused == [kind |-> "refused"]
\* a body that response.json() cannot parse
NotJSON == [t |-> "notjson"]
Http(status, body) == [kind |-> "http", status |-> status, body |-> body]
NoAnswer == [kind |-> "none"]

\* a request as requests.get / requests.post sends it
NoBody == [t |-> "nobody"]
Request(verb, endpoint, json) ==
  [verb |-> verb, url |-> <<base_url, endpoint>>, json |-> json]

Endpoint(r) == r.url[2]

----------------------------------------------------------------------------
(* src/voiceover_client.py *)

VoiceOverResponse(success, message, currentItem, responses, error) ==
  [success |-> success, message |-> message, currentItem |-> currentItem,
   responses |-> responses, error |-> error]

GET == <<"G", "E", "T">>
POST == <<"P", "O", "S", "T">>

ConnectionErrorMessage ==
  <<"C", "o", "u", "l", "d", " ", "n", "o", "t", " ", "c", "o", "n", "n", "e",
    "c", "t", " ", "t", "o", " ", "V", "o", "i", "c", "e", "O", "v", "e", "r",
    " ", "s", "e", "r", "v", "e", "r", ".", " ", "M", "a", "k", "e", " ", "s",
    "u", "r", "e", " ", "i", "t", "'", "s", " ", "r", "u", "n", "n", "i", "n",
    "g", ".">>

\* str(e) of the JSONDecodeError that response.json() raises on a non-JSON body
JSONDecodeErrorMessage ==
  <<"E", "x", "p", "e", "c", "t", "i", "n", "g", " ", "v", "a", "l", "u", "e",
    ":", " ", "l", "i", "n", "e", " ", "1", " ", "c", "o", "l", "u", "m", "n",
    " ", "1", " ", "(", "c", "h", "a", "r", " ", "0", ")">>

\* str(e) of the AttributeError that result.get raises when result is no dict
AttributeErrorMessage(v) ==
  <<"'">> \o TypeName(v) \o
  <<"'", " ", "o", "b", "j", "e", "c", "t", " ", "h", "a", "s", " ", "n", "o",
    " ", "a", "t", "t", "r", "i", "b", "u", "t", "e", " ", "'", "g", "e", "t",
    "'">>

\* str(e) of the ValueError raised for a method that is neither GET nor POST
UnsupportedMethodMessage(method) ==
  <<"U", "n", "s", "u", "p", "p", "o", "r", "t", "e", "d", " ", "m", "e", "t",
    "h", "o", "d", ":", " ">> \o method

\* the arguments a wrapper passes to _make_request
Call(method, endpoint, data) ==
  [method |-> method, endpoint |-> endpoint, data |-> data]

\* the HTTP requests _make_request issues for a call (lines 24-29)
requests_of(c) ==
  IF upper(c.method) = GET
    THEN <<Request("GET", c.endpoint, NoBody)>>
    ELSE IF upper(c.method) = POST
      THEN <<Request("POST", c.endpoint,
                     IF Truthy(c.data) THEN c.data ELSE Dict(<<>>))>>
      ELSE <<>>

\* result.get("success", False)
response_success(result) == Get(result, "success", Bool(FALSE))

\* the currentItem field lower-cased on the way through (plausible slip)
response_currentItem_lowered(result) ==
  LET v == Get(result, "currentItem", None)
  IN  IF v.t = "str" THEN Str(lower(v.s)) ELSE v

\* result.get("currentItem")
response_currentItem(result) == Get(result, "currentItem", None)

\* VoiceOverClient._make_request: the value returned when the server gives
\* answer ans to the call c
make_request(c, ans) ==
  IF upper(c.method) # GET /\ upper(c.method) # POST
    THEN VoiceOverResponse(Bool(FALSE), None, None, None,
                           Str(UnsupportedMethodMessage(c.method)))
  ELSE IF ans.kind = "refused"
    THEN VoiceOverResponse(Bool(FALSE), None, None, None,
                           Str(ConnectionErrorMessage))
  ELSE IF ans.body.t = "notjson"
    THEN VoiceOverResponse(Bool(FALSE), None, None, None,
                           Str(JSONDecodeErrorMessage))
  ELSE IF ans.body.t # "dict"
    THEN VoiceOverResponse(Bool(FALSE), None, None, None,
                           Str(AttributeErrorMessage(ans.body)))
  ELSE LET result == ans.body.d
       IN  VoiceOverResponse(response_success(result),
                             Get(result, "message", None),
                             response_currentItem(result),
                             Get(result, "responses", None),
                             Get(result, "error", None))

start_voiceover == Call(POST, "/voiceover/start", None)
stop_voiceover == Call(POST, "/voiceover/stop", None)
type_text(text) == Call(POST, "/voiceover/type", Dict([text |-> text]))
navigate_next == Call(POST, "/voiceover/next", None)
navigate_previous == Call(POST, "/voiceover/previous", None)
get_current_item == Call(GET, "/voiceover/current", None)
click_current == Call(POST, "/voiceover/click", None)
open_app(app_name) == Call(POST, "/system/open-app", Dict([appName |-> app_name]))
press_key(key) == Call(POST, "/system/press-key", Dict([key |-> key]))
open_copilot_and_send_message(message) ==
  Call(POST, "/operations/open-copilot-and-send-message",
       Dict([message |-> message]))
health_check == Call(GET, "/health", None)

NoCall == [method |-> <<>>, endpoint |-> "", data |-> None]

a_type == <<"t", "y", "p", "e">>
a_navigate_next == <<"n", "a", "v", "i", "g", "a", "t", "e", "_", "n", "e", "x", "t">>
a_navigate_previous ==
  <<"n", "a", "v", "i", "g", "a", "t", "e", "_", "p", "r", "e", "v", "i", "o", "u", "s">>
a_click == <<"c", "l", "i", "c", "k">>
a_open_app == <<"o", "p", "e", "n", "_", "a", "p", "p">>
a_press_key == <<"p", "r", "e", "s", "s", "_", "k", "e", "y">>

\* the dispatch with the navigation branches crossed (plausible slip)
dispatch_crossed(llm_response) ==
  LET action == Get(llm_response, "action", None)
  IN  IF action = Str(a_type)
        THEN type_text(Get(llm_response, "text", Str(<<>>)))
      ELSE IF action = Str(a_navigate_next) THEN navigate_previous
      ELSE IF action = Str(a_navigate_previous) THEN navigate_next
      ELSE IF action = Str(a_click) THEN click_current
      ELSE IF action = Str(a_open_app)
        THEN open_app(Get(llm_response, "app_name", Str(<<>>)))
      ELSE IF action = Str(a_press_key)
        THEN press_key(Get(llm_response, "key", Str(<<>>)))
      ELSE NoCall

\* AccessibilityAgent.execute_llm_command, lines 113-134: the wrapper the
\* command is dispatched to, NoCall for the final else
dispatch(llm_response) ==
  LET action == Get(llm_response, "action", None)
  IN  IF action = Str(a_type)
        THEN type_text(Get(llm_response, "text", Str(<<>>)))
      ELSE IF action = Str(a_navigate_next) THEN navigate_next
      ELSE IF action = Str(a_navigate_previous) THEN navigate_previous
      ELSE IF action = Str(a_click) THEN click_current
      ELSE IF action = Str(a_open_app)
        THEN open_app(Get(llm_response, "app_name", Str(<<>>)))
      ELSE IF action = Str(a_press_key)
        THEN press_key(Get(llm_response, "key", Str(<<>>)))
      ELSE NoCall

UnknownActionMessage(action) ==
  <<"U", "n", "k", "n", "o", "w", "n", " ", "a", "c", "t", "i", "o", "n", ":",
    " ">> \o PyStr(action)

\* AccessibilityAgent.execute_llm_command: the value returned
execute_llm_command(llm_response, ans) ==
  IF dispatch(llm_response) = NoCall
    THEN VoiceOverResponse(Bool(FALSE), None, None, None,
           Str(UnknownActionMessage(Get(llm_response, "action", None))))
    ELSE make_request(dispatch(llm_response), ans)

\* AccessibilityAgent.execute_llm_command: the requests issued
execute_llm_requests(llm_response) ==
  IF dispatch(llm_response) = NoCall
    THEN <<>>
    ELSE requests_of(dispatch(llm_response))

----------------------------------------------------------------------------
(* Inputs: item texts, JSON bodies, server answers, commands *)

Fragments ==
  { <<"S", "h", "o", "w", " ", "M", "O", "R", "E">>,
    <<"U", "P", "L", "O", "A", "D">>,
    <<"f", "i", "l", "e">>,
    <<",", " ", "I", "m", "a", "g", "e">> }

RECURSIVE Concat(_)
Concat(fs) == IF fs = <<>> THEN <<>> ELSE Head(fs) \o Concat(Tail(fs))

Texts == { Concat(fs) : fs \in UNION { [1..k -> Fragments] : k \in 0..MaxFrags } }

Absent == [t |-> "absent"]
Field(k, v) == IF v = Absent THEN <<>> ELSE (k :> v)

s_show_more == <<"S", "h", "o", "w", " ", "M", "O", "R", "E">>
s_ok == <<"o", "k">>
s_hi == <<"h", "i">>
s_not_supported ==
  <<"V", "o", "i", "c", "e", "O", "v", "e", "r", " ", "n", "o", "t", " ", "s",
    "u", "p", "p", "o", "r", "t", "e", "d">>

SuccessValues == {Absent, Bool(TRUE), Bool(FALSE)}
ItemValues == {Absent, None} \cup { Str(x) : x \in Texts }
\* JSON bodies that parse but are not objects
NonObjects == {None, List(<<>>)}
\* the body of a failure as the server reports it
FailureObject == [success |-> Bool(FALSE), error |-> Str(s_not_supported)]

\* objects carrying the fields _make_request reads: every combination of
\* present and absent fields, and every item text beside a success flag
ResultObjects ==
  { Field("success", s) @@ Field("message", m) @@ Field("currentItem", c)
      @@ Field("responses", r) @@ Field("error", e) :
      s \in SuccessValues, m \in {Absent, Str(s_ok)}, c \in {Absent, Str(s_hi)},
      r \in {Absent, List(<<Str(s_hi)>>)}, e \in {Absent, Str(s_not_supported)} }

ItemObjects ==
  { Field("success", s) @@ Field("currentItem", c) :
      s \in SuccessValues, c \in ItemValues }

\* what GET /health answers: the health field alone
HealthObjects == { [voiceOverRunning |-> Bool(v)] : v \in BOOLEAN }

\* answers that are no JSON object at all
BrokenAnswers ==
  {Refused} \cup { Http(200, b) : b \in {NotJSON} \cup NonObjects }
            \cup { Http(500, NotJSON) }

\* the answers a server can give to a call made through VoiceOverClient
ClientAnswers ==
  BrokenAnswers
    \cup { Http(200, Dict(d)) : d \in ResultObjects \cup HealthObjects }
    \cup { Http(500, Dict(FailureObject)) }

\* the answers a server can give to get_current_item
ItemAnswers == { Http(200, Dict(d)) : d \in ItemObjects }

\* the answers a server can give to a call of demo_conversation_with_copilot:
\* objects carrying the fields the demo reads, with responses absent, null or
\* a list as VoiceOverResponse declares it (Optional[List[str]])
DemoAnswers ==
  BrokenAnswers
    \cup { Http(200, Dict(Field("success", s) @@ Field("responses", r))) :
             s \in SuccessValues,
             r \in {Absent, None, List(<<>>), List(<<Str(s_hi)>>)} }
    \cup { Http(st, Dict(FailureObject)) : st \in {200, 500} }

\* the answers a server can give to a request of main.py other than the
\* poll: objects carrying the fields main.py reads
ScriptAnswers ==
  BrokenAnswers
    \cup { Http(200, Dict(Field("success", s))) : s \in SuccessValues }
    \cup { Http(st, Dict(FailureObject)) : st \in {200, 500} }

\* the answers a server can give to GET /health in main.py
HealthAnswers ==
  ScriptAnswers \cup { Http(st, Dict(d)) : st \in {200, 500}, d \in HealthObjects }

\* the answers a server can give to GET /voiceover/current in main.py
CurrentAnswers ==
  BrokenAnswers
    \cup { Http(200, Dict([success |-> Bool(TRUE)] @@ Field("currentItem", c))) :
             c \in ItemValues }
    \cup { Http(200, Dict(Field("success", s) @@ Field("currentItem", c))) :
             s \in {Absent, Bool(FALSE)}, c \in {Absent, Str(s_show_more)} }
    \cup { Http(st, Dict(FailureObject)) : st \in {200, 500} }

ArgValues == {Absent, Str(s_hi)}
ActionValues ==
  {Absent} \cup { Str(x) : x \in {a_type, a_navigate_next, a_navigate_previous,
                                   a_click, a_open_app, a_press_key,
                                   <<"s", "c", "r", "o", "l", "l">>} }
Commands ==
  { Field("action", x) @@ Field("text", y) @@ Field("app_name", z) @@ Field("key", w) :
      x \in ActionValues, y \in ArgValues, z \in ArgValues, w \in ArgValues }

\* the command of the module's __main__ block (lines 190-193)
llm_command ==
  [action |-> Str(a_type),
   text |-> Str(<<"H", "e", "l", "l", "o", " ", "f", "r", "o", "m", " ", "P",
                  "y", "t", "h", "o", "n", "!">>)]

\* the message of demo_conversation_with_copilot (line 161)
message ==
  <<"H", "e", "l", "l", "o", ",", " ", "c", "a", "n", " ", "y", "o", "u", " ",
    "h", "e", "l", "p", " ", "m", "e", " ", "w", "i", "t", "h", " ", "a", "c",
    "c", "e", "s", "s", "i", "b", "i", "l", "i", "t", "y", " ", "t", "e", "s",
    "t", "i", "n", "g", " ", "o", "n", " ", "m", "a", "c", "O", "S", "?">>

\* every wrapper of VoiceOverClient, with its arguments
WrapperCalls ==
  {start_voiceover, stop_voiceover, navigate_next, navigate_previous,
   get_current_item, click_current, health_check}
    \cup { type_text(Str(x)) : x \in {<<>>, s_hi} }
    \cup { open_app(Str(x)) : x \in {<<>>, s_hi} }
    \cup { press_key(Str(x)) : x \in {<<>>, s_hi} }
    \cup { open_copilot_and_send_message(Str(x)) : x \in {<<>>, s_hi} }

----------------------------------------------------------------------------
(* Initial state *)

Programs == {"call", "exec", "main", "demo", "test"}

Entry(p) ==
  CASE p = "call" -> "call"
    [] p = "exec" -> "exec"
    [] p = "main" -> "main_health"
    [] p = "demo" -> "demo_start"
    [] p = "test" -> "health"

Init ==
  /\ prog \in Programs
  /\ pc = Entry(prog)
  /\ cmd \in (IF prog = "exec" THEN Commands
              ELSE IF prog = "main" THEN {llm_command} ELSE {<<>>})
  /\ ret = None
  /\ sent = <<>>
  /\ last = NoAnswer
  /\ copilot_opened = FALSE
  /\ open_icon_found = FALSE
  /\ upload_control_found = FALSE
  /\ decorative_image_detected = FALSE
  /\ navigation_attempts = 0
  /\ focus_check_attempts = 0

----------------------------------------------------------------------------
(* Entry points of src/voiceover_client.py *)

\* one call of one wrapper of VoiceOverClient
WrapperCall ==
  /\ pc = "call"
  /\ \E c \in WrapperCalls :
       \E ans \in ClientAnswers \cup (IF c = get_current_item THEN ItemAnswers ELSE {}) :
         /\ sent' = sent \o requests_of(c)
         /\ last' = ans
         /\ ret' = make_request(c, ans)
  /\ pc' = "done"
  /\ UNCHANGED <<prog, cmd, script_locals>>

\* AccessibilityAgent.execute_llm_command(cmd)
ExecuteLlmCommand ==
  /\ pc = "exec"
  /\ \E ans \in ClientAnswers :
       /\ sent' = sent \o execute_llm_requests(cmd)
       /\ last' = IF execute_llm_requests(cmd) = <<>> THEN last ELSE ans
       /\ ret' = execute_llm_command(cmd, ans)
  /\ pc' = "done"
  /\ UNCHANGED <<prog, cmd, script_locals>>

\* __main__, lines 184-201: health check, then the example command
MainHealthCheck ==
  /\ pc = "main_health"
  /\ \E ans \in ClientAnswers :
       /\ sent' = sent \o requests_of(health_check)
       /\ last' = ans
       /\ ret' = make_request(health_check, ans)
  /\ pc' = IF Truthy(ret'.success) THEN "exec" ELSE "done"
  /\ UNCHANGED <<prog, cmd, script_locals>>

\* demo_conversation_with_copilot, lines 155-158
DemoStart ==
  /\ pc = "demo_start"
  /\ \E ans \in DemoAnswers :
       /\ sent' = sent \o requests_of(start_voiceover)
       /\ last' = ans
       /\ ret' = make_request(start_voiceover, ans)
  /\ pc' = IF ~Truthy(ret'.success) THEN "done" ELSE "demo_send"
  /\ UNCHANGED <<prog, cmd, script_locals>>

\* demo_conversation_with_copilot, lines 161-172
DemoSend ==
  /\ pc = "demo_send"
  /\ \E ans \in DemoAnswers :
       /\ sent' = sent \o requests_of(open_copilot_and_send_message(Str(message)))
       /\ last' = ans
       /\ ret' = make_request(open_copilot_and_send_message(Str(message)), ans)
  /\ pc' = "demo_stop"
  /\ UNCHANGED <<prog, cmd, script_locals>>

\* demo_conversation_with_copilot, lines 175-176
DemoStop ==
  /\ pc = "demo_stop"
  /\ \E ans \in DemoAnswers :
       /\ sent' = sent \o requests_of(stop_voiceover)
       /\ last' = ans
  /\ pc' = "done"
  /\ UNCHANGED <<prog, cmd, ret, script_locals>>

----------------------------------------------------------------------------
(* src/main.py: test_voiceover_operations *)

max_attempts == 5
max_focus_checks == 5

kw_show_more == <<"s", "h", "o", "w", " ", "m", "o", "r", "e">>
kw_upload == <<"u", "p", "l", "o", "a", "d">>
kw_file == <<"f", "i", "l", "e">>
decorative_keywords == { <<",", " ", "i", "m", "a", "g", "e">> }
copilot_names == <<"C", "o", "p", "i", "l", "o", "t">>

\* requests.get / requests.post raised, or response.json() raised, or the
\* first .get on the parsed body raised because it is no dict
Raises(ans) ==
  \/ ans.kind = "refused"
  \/ ans.body.t = "notjson"
  \/ ans.body.t # "dict"

\* result.get("success") as a condition
Successful(ans) == Truthy(Get(ans.body.d, "success", None))

\* current_result.get("currentItem", "")
current_item(ans) == Get(ans.body.d, "currentItem", Str(<<>>))

\* .lower() exists on str only; on None it raises AttributeError
LowerRaises(ans) == current_item(ans).t # "str"

\* the loop condition with an off-by-one bound (plausible slip: <=)
while_navigation_inclusive(found, attempts) ==
  ~found /\ attempts <= max_attempts

\* lines 89 and 129: while not found and navigation_attempts < max_attempts
while_navigation(found, attempts) == ~found /\ attempts < max_attempts

\* line 180: while focus_check_attempts < max_focus_checks
while_focus(attempts) == attempts < max_focus_checks

\* line 98: "show more" in current_text
match_show_more(current_text) == In(kw_show_more, current_text)

\* line 138: "upload" in current_text and "file" in current_text
match_upload_file(current_text) ==
  In(kw_upload, current_text) /\ In(kw_file, current_text)

\* lines 190-195: some decorative keyword in current_text_lower
match_decorative(current_text_lower) ==
  \E keyword \in decorative_keywords : In(keyword, current_text_lower)

Issue(r, ans) == sent' = Append(sent, r) /\ last' = ans

\* lines 17-30
HealthCheck ==
  /\ pc = "health"
  /\ \E ans \in HealthAnswers :
       /\ Issue(Request("GET", "/health", NoBody), ans)
       /\ pc' = IF ans.kind = "refused" THEN "done"
                ELSE IF ans.status = 200
                  THEN (IF Raises(ans) THEN "done" ELSE "start")
                  ELSE "done"
  /\ UNCHANGED <<prog, cmd, ret, script_locals>>

\* the start step going on whatever the answer says (plausible slip:
\* the return of line 43 missing)
start_continues_always(ans) == ~Raises(ans)

\* lines 36-46: the script goes on after POST /voiceover/start
start_continues(ans) == ~Raises(ans) /\ Successful(ans)

\* lines 32-46
StartVoiceOver ==
  /\ pc = "start"
  /\ \E ans \in ScriptAnswers :
       /\ Issue(Request("POST", "/voiceover/start", NoBody), ans)
       /\ pc' = IF start_continues(ans) THEN "open_app" ELSE "done"
  /\ UNCHANGED <<prog, cmd, ret, script_locals>>

\* lines 49-87: one pass over copilot_names, then the set-up of step 4.1
OpenCopilot ==
  /\ pc = "open_app"
  /\ \E ans \in ScriptAnswers :
       /\ Issue(Request("POST", "/system/open-app",
                        Dict([appName |-> Str(copilot_names)])), ans)
       /\ copilot_opened' = (~Raises(ans) /\ Successful(ans))
  /\ open_icon_found' = FALSE
  /\ navigation_attempts' = 0
  /\ pc' = IF while_navigation(open_icon_found', navigation_attempts')
             THEN "poll1" ELSE "after1"
  /\ UNCHANGED <<prog, cmd, ret, upload_control_found,
                 decorative_image_detected, focus_check_attempts>>

\* a poll after which a miss leaves the loop instead of advancing
\* (plausible slip: break in the wrong branch)
PollTarget_break_on_miss(ans, matches, click, advance, after) ==
  IF Raises(ans) THEN "stop"
  ELSE IF ~Successful(ans) THEN after
  ELSE IF LowerRaises(ans) THEN "stop"
  ELSE IF matches THEN click
  ELSE after

\* a poll outside the try block of step 4: an exception ends the script
\* (plausible slip: the try/except of lines 82 and 213 missing)
PollTarget_unprotected(ans, matches, click, advance, after) ==
  IF Raises(ans) THEN "done"
  ELSE IF ~Successful(ans) THEN after
  ELSE IF LowerRaises(ans) THEN "done"
  ELSE IF matches THEN click
  ELSE advance

\* where a poll of step 4.1, 4.2 or 4.3 leads: the except clause of line 213, the
\* break of lines 117-119 / 165-167, the click, or the advance
PollTarget(ans, matches, click, advance, after) ==
  IF Raises(ans) THEN "stop"
  ELSE IF ~Successful(ans) THEN after
  ELSE IF LowerRaises(ans) THEN "stop"
  ELSE IF matches THEN click
  ELSE advance

\* lines 91-100, 117-119
PollOpenIcon ==
  /\ pc = "poll1"
  /\ \E ans \in CurrentAnswers :
       LET hit == /\ ~Raises(ans) /\ Successful(ans) /\ ~LowerRaises(ans)
                  /\ match_show_more(lower(current_item(ans).s))
       IN  /\ Issue(Request("GET", "/voiceover/current", NoBody), ans)
           /\ open_icon_found' = hit
           /\ pc' = PollTarget(ans, hit, "click1", "next1", "after1")
  /\ UNCHANGED <<prog, cmd, ret, copilot_opened, upload_control_found,
                 decorative_image_detected, navigation_attempts,
                 focus_check_attempts>>

\* lines 102-111
ClickOpenIcon ==
  /\ pc = "click1"
  /\ \E ans \in ScriptAnswers :
       /\ Issue(Request("POST", "/voiceover/click", NoBody), ans)
       /\ pc' = IF Raises(ans) THEN "stop" ELSE "after1"
  /\ UNCHANGED <<prog, cmd, ret, script_locals>>

\* lines 113-116, then the loop condition of line 89
NextOpenIcon ==
  /\ pc = "next1"
  /\ \E ans \in ScriptAnswers :
       /\ Issue(Request("POST", "/voiceover/next", NoBody), ans)
       /\ IF ans.kind = "refused"
            THEN /\ pc' = "stop"
                 /\ UNCHANGED navigation_attempts
            ELSE /\ navigation_attempts' = navigation_attempts + 1
                 /\ pc' = IF while_navigation(open_icon_found, navigation_attempts')
                            THEN "poll1" ELSE "after1"
  /\ UNCHANGED <<prog, cmd, ret, copilot_opened, open_icon_found,
                 upload_control_found, decorative_image_detected,
                 focus_check_attempts>>

\* lines 121-129: report of step 4.1, set-up of step 4.2
BeginUpload ==
  /\ pc = "after1"
  /\ upload_control_found' = FALSE
  /\ navigation_attempts' = 0
  /\ sent' = <<>>
  /\ pc' = IF while_navigation(upload_control_found', navigation_attempts')
             THEN "poll2" ELSE "after2"
  /\ UNCHANGED <<prog, cmd, ret, last, copilot_opened, open_icon_found,
                 decorative_image_detected, focus_check_attempts>>

\* lines 131-140, 165-167
PollUpload ==
  /\ pc = "poll2"
  /\ \E ans \in CurrentAnswers :
       LET hit == /\ ~Raises(ans) /\ Successful(ans) /\ ~LowerRaises(ans)
                  /\ match_upload_file(lower(current_item(ans).s))
       IN  /\ Issue(Request("GET", "/voiceover/current", NoBody), ans)
           /\ upload_control_found' = hit
           /\ pc' = PollTarget(ans, hit, "click2", "next2", "after2")
  /\ UNCHANGED <<prog, cmd, ret, copilot_opened, open_icon_found,
                 decorative_image_detected, navigation_attempts,
                 focus_check_attempts>>

\* lines 142-147, 155-159
ClickUpload ==
  /\ pc = "click2"
  /\ \E ans \in ScriptAnswers :
       /\ Issue(Request("POST", "/voiceover/click", NoBody), ans)
       /\ pc' = IF Raises(ans) THEN "stop"
                ELSE IF ~Successful(ans) THEN "mouse" ELSE "after2"
  /\ UNCHANGED <<prog, cmd, ret, script_locals>>

\* the requests of the mouse fallback, were it to click again (plausible
\* slip: a real activation attempt in the fallback)
mouse_fallback_clicks == <<Request("POST", "/voiceover/click", NoBody)>>

\* lines 148-154: the requests the mouse fallback issues
mouse_fallback_requests == <<>>

\* lines 148-154, 158-159: the simulated mouse click
MouseFallback ==
  /\ pc = "mouse"
  /\ sent' = sent \o mouse_fallback_requests
  /\ pc' = "after2"
  /\ UNCHANGED <<prog, cmd, ret, last, script_locals>>

\* lines 161-164, then the loop condition of line 129
NextUpload ==
  /\ pc = "next2"
  /\ \E ans \in ScriptAnswers :
       /\ Issue(Request("POST", "/voiceover/next", NoBody), ans)
       /\ IF ans.kind = "refused"
            THEN /\ pc' = "stop"
                 /\ UNCHANGED navigation_attempts
            ELSE /\ navigation_attempts' = navigation_attempts + 1
                 /\ pc' = IF while_navigation(upload_control_found, navigation_attempts')
                            THEN "poll2" ELSE "after2"
  /\ UNCHANGED <<prog, cmd, ret, copilot_opened, open_icon_found,
                 upload_control_found, decorative_image_detected,
                 focus_check_attempts>>

\* lines 169-180: report of step 4.2, set-up of step 4.3
BeginFocusCheck ==
  /\ pc = "after2"
  /\ decorative_image_detected' = FALSE
  /\ focus_check_attempts' = 0
  /\ sent' = <<>>
  /\ pc' = IF while_focus(focus_check_attempts') THEN "poll3" ELSE "after3"
  /\ UNCHANGED <<prog, cmd, ret, last, copilot_opened, open_icon_found,
                 upload_control_found, navigation_attempts>>

\* lines 181-198, 204-205
PollFocus ==
  /\ pc = "poll3"
  /\ \E ans \in CurrentAnswers :
       LET hit == /\ ~Raises(ans) /\ Successful(ans) /\ ~LowerRaises(ans)
                  /\ match_decorative(lower(current_item(ans).s))
       IN  /\ Issue(Request("GET", "/voiceover/current", NoBody), ans)
           /\ decorative_image_detected' = hit
           /\ pc' = PollTarget(ans, hit, "after3", "next3", "after3")
  /\ UNCHANGED <<prog, cmd, ret, copilot_opened, open_icon_found,
                 upload_control_found, navigation_attempts,
                 focus_check_attempts>>

\* lines 200-203, then the loop condition of line 180
NextFocus ==
  /\ pc = "next3"
  /\ \E ans \in ScriptAnswers :
       /\ Issue(Request("POST", "/voiceover/next", NoBody), ans)
       /\ IF ans.kind = "refused"
            THEN /\ pc' = "stop"
                 /\ UNCHANGED focus_check_attempts
            ELSE /\ focus_check_attempts' = focus_check_attempts + 1
                 /\ pc' = IF while_focus(focus_check_attempts')
                            THEN "poll3" ELSE "after3"
  /\ UNCHANGED <<prog, cmd, ret, copilot_opened, open_icon_found,
                 upload_control_found, decorative_image_detected,
                 navigation_attempts>>

\* lines 207-211: report of step 4.3
EndScenario ==
  /\ pc = "after3"
  /\ pc' = "stop"
  /\ UNCHANGED <<prog, cmd, ret, sent, last, script_locals>>

\* lines 216-228
StopVoiceOver ==
  /\ pc = "stop"
  /\ \E ans \in ScriptAnswers :
       Issue(Request("POST", "/voiceover/stop", NoBody), ans)
  /\ pc' = "done"
  /\ UNCHANGED <<prog, cmd, ret, script_locals>>

----------------------------------------------------------------------------

Next ==
  \/ WrapperCall
  \/ ExecuteLlmCommand
  \/ MainHealthCheck
  \/ DemoStart
  \/ DemoSend
  \/ DemoStop
  \/ HealthCheck
  \/ StartVoiceOver
  \/ OpenCopilot
  \/ PollOpenIcon
  \/ ClickOpenIcon
  \/ NextOpenIcon
  \/ BeginUpload
  \/ PollUpload
  \/ ClickUpload
  \/ MouseFallback
  \/ NextUpload
  \/ BeginFocusCheck
  \/ PollFocus
  \/ NextFocus
  \/ EndScenario
  \/ StopVoiceOver

Spec == Init /\ [][Next]_vars

\* every call blocks until it is answered or raises (synchronous,
\* single-threaded), so a run that can take a step takes it
FairSpec == Spec /\ WF_vars(Next)

----------------------------------------------------------------------------
(* Vocabulary of the properties *)

LastSent == sent[Len(sent)]

RECURSIVE Count(_, _)
\* how many requests of the log go to the endpoint
Count(log, endpoint) ==
  IF log = <<>> THEN 0
  ELSE (IF Endpoint(Head(log)) = endpoint THEN 1 ELSE 0) + Count(Tail(log), endpoint)

\* the last request went to the endpoint
JustSent(endpoint) == Len(sent) > 0 /\ Endpoint(LastSent) = endpoint

\* two characters are the same letter, whatever their case
SameLetter(a, b) ==
  a = b \/ \E k \in 1..26 : {a, b} = {UpperCase[k], LowerCase[k]}

\* text contains the keyword somewhere, letter case ignored
ContainsIgnoringCase(text, keyword) ==
  \E i \in 1..(Len(text) - Len(keyword) + 1) :
    \A j \in 1..Len(keyword) : SameLetter(text[i + j - 1], keyword[j])

ShowMore == <<"s", "h", "o", "w", " ", "m", "o", "r", "e">>
Upload == <<"u", "p", "l", "o", "a", "d">>
File == <<"f", "i", "l", "e">>

\* the server answered the poll with success and a text
PolledText == ~Raises(last) /\ Successful(last) /\ ~LowerRaises(last)

----------------------------------------------------------------------------
(* C1 *)

ResultFields == {"success", "message", "currentItem", "responses", "error"}

\* the server is unreachable or its answer is malformed: connection refused,
\* a body that is no JSON, a JSON value that is no object, or an object with
\* none of the fields of a result
Malformed(ans) ==
  \/ ans.kind = "refused"
  \/ ans.body.t = "notjson"
  \/ ans.body.t # "dict"
  \/ DOMAIN ans.body.d \cap ResultFields = {}

\* C1: for a malformed or unreachable server every wrapper call returns
\* success = false together with a non-empty error string.
C1_MalformedGivesError ==
  (prog = "call" /\ pc = "done" /\ Malformed(last)) =>
    /\ ret.success = Bool(FALSE)
    /\ ret.error.t = "str"
    /\ Len(ret.error.s) > 0

----------------------------------------------------------------------------
(* C2 *)

\* the health check or the start step of main.py has just failed
Aborted ==
  /\ prog = "test"
  /\ \/ /\ JustSent("/health")
        /\ (last.kind = "refused" \/ last.status # 200 \/ Raises(last))
     \/ /\ JustSent("/voiceover/start")
        /\ (Raises(last) \/ ~Successful(last))

\* GET /health was just answered 200 {"voiceOverRunning": false}
HealthNotRunning ==
  /\ prog = "test"
  /\ sent = <<Request("GET", "/health", NoBody)>>
  /\ last = Http(200, Dict([voiceOverRunning |-> Bool(FALSE)]))

\* C2: once the health check or the start step has failed no further request
\* is issued; a 200 health answer saying voiceOverRunning = false does not
\* abort: the script stands before the start step and its next step issues
\* POST /voiceover/start.
C2_FailedPreconditionAborts ==
  /\ [][Aborted => sent' = sent /\ pc' = "done"]_vars
  /\ [](Aborted => pc = "done")
  /\ [](HealthNotRunning => pc = "start" /\ ENABLED StartVoiceOver)
  /\ [][HealthNotRunning =>
          sent' = Append(sent, Request("POST", "/voiceover/start", NoBody))]_vars

\* the start step answered {"success": false, "error": "VoiceOver not
\* supported"} and the script ended with two requests issued
C2_Witness ==
  /\ prog = "test" /\ pc = "done"
  /\ Len(sent) = 2 /\ JustSent("/voiceover/start")
  /\ last = Http(200, Dict(FailureObject))

----------------------------------------------------------------------------
(* C3 *)

\* C3: in each navigation loop at most 5 GET /voiceover/current and at most
\* 5 POST /voiceover/next are issued, the attempt counters never exceed 5,
\* and the script always reaches its end.
C3_LoopsBounded ==
  /\ [](prog = "test" =>
          /\ Count(sent, "/voiceover/current") <= 5
          /\ Count(sent, "/voiceover/next") <= 5
          /\ navigation_attempts <= 5
          /\ focus_check_attempts <= 5)
  /\ ((prog = "test") ~> (pc = "done"))

\* step 4.1 ran out of attempts: five polls, five advances, no match
C3_Witness ==
  /\ prog = "test" /\ pc = "after1" /\ ~open_icon_found
  /\ navigation_attempts = 5
  /\ Count(sent, "/voiceover/current") = 5
  /\ Count(sent, "/voiceover/next") = 5

----------------------------------------------------------------------------
(* C4 *)

\* C4: get_current_item returns the currentItem of {"success": true,
\* "currentItem": X} unchanged for every text X; every wrapper copies
\* message, currentItem, responses and error from a JSON object unmodified
\* (None when absent) and takes success from it, False when absent.
C4_FieldsCopied ==
  (prog = "call" /\ pc = "done" /\ last.kind = "http" /\ last.body.t = "dict") =>
    /\ \A f \in ResultFields :
         ret[f] = IF f \in DOMAIN last.body.d THEN last.body.d[f]
                  ELSE IF f = "success" THEN Bool(FALSE) ELSE None
    /\ \A X \in Texts :
         (/\ JustSent("/voiceover/current")
          /\ last.body.d = [success |-> Bool(TRUE), currentItem |-> Str(X)])
           => ret = VoiceOverResponse(Bool(TRUE), None, Str(X), None, None)

\* get_current_item returned the mixed-case text "Show MOREfile" as it came
C4_Witness ==
  /\ prog = "call" /\ pc = "done" /\ JustSent("/voiceover/current")
  /\ last = Http(200, Dict([success |-> Bool(TRUE),
                            currentItem |-> Str(s_show_more \o File)]))
  /\ ret.success = Bool(TRUE)
  /\ ret.currentItem = Str(s_show_more \o File)

----------------------------------------------------------------------------
(* C5 *)

\* C5: after a poll answered with a text, step 4.1 goes on to the click
\* exactly when the text contains "show more" in any letter case, and step
\* 4.2 exactly when it contains both "upload" and "file" in any letter case,
\* anywhere and in any order; otherwise the loop advances.
C5_KeywordMatch ==
  /\ pc \in {"click1", "next1"} =>
       /\ PolledText
       /\ open_icon_found = (pc = "click1")
       /\ (pc = "click1") = ContainsIgnoringCase(current_item(last).s, ShowMore)
  /\ pc \in {"click2", "next2"} =>
       /\ PolledText
       /\ upload_control_found = (pc = "click2")
       /\ (pc = "click2") = (/\ ContainsIgnoringCase(current_item(last).s, Upload)
                             /\ ContainsIgnoringCase(current_item(last).s, File))

\* step 4.2 matched "fileUPLOAD": upper case, no word boundary, file first
C5_Witness ==
  /\ pc = "click2"
  /\ current_item(last) = Str(File \o <<"U", "P", "L", "O", "A", "D">>)

----------------------------------------------------------------------------
(* C6 *)

\* C6 as stated: the loops of steps 4.1 and 4.2 are left only on a match or
\* after 5 advance attempts.
C6_LeftOnMatchOrExhaustion ==
  /\ (prog = "test" /\ pc = "after1") =>
       (open_icon_found \/ navigation_attempts = 5)
  /\ (prog = "test" /\ pc \in {"mouse", "after2"}) =>
       (upload_control_found \/ navigation_attempts = 5)

InLoop1 == pc \in {"poll1", "click1", "next1"}
InLoop2 == pc \in {"poll2", "click2", "next2", "mouse"}

\* the poll just made was answered without a truthy success
PollFailed == JustSent("/voiceover/current") /\ ~Raises(last) /\ ~Successful(last)

\* a request just made raised, or the text of the poll could not be lowered
Raised ==
  \/ last.kind = "refused"
  \/ ~JustSent("/voiceover/next") /\ Raises(last)
  \/ JustSent("/voiceover/current") /\ ~Raises(last) /\ Successful(last)
       /\ LowerRaises(last)

\* C6 amended: the loops of steps 4.1 and 4.2 are left only on a match, after
\* 5 advance attempts, on a poll answered without a truthy success, or on an
\* exception, which abandons step 4 for the stop step; every poll answered
\* with a non-matching text is followed by exactly one POST /voiceover/next.
C6_LeftOnMatchExhaustionOrFailure ==
  /\ [][(InLoop1 /\ ~InLoop1') =>
          ((pc' = "after1"
              /\ (open_icon_found' \/ navigation_attempts' = 5 \/ PollFailed'))
           \/ (pc' = "stop" /\ Raised'))]_vars
  /\ [][(InLoop2 /\ ~InLoop2') =>
          ((pc' = "after2"
              /\ (upload_control_found' \/ navigation_attempts' = 5 \/ PollFailed'))
           \/ (pc' = "stop" /\ Raised'))]_vars
  /\ [][(pc \in {"poll1", "poll2"} /\ PolledText') =>
          LET text == current_item(last').s
              hit == IF pc = "poll1"
                       THEN ContainsIgnoringCase(text, ShowMore)
                       ELSE /\ ContainsIgnoringCase(text, Upload)
                            /\ ContainsIgnoringCase(text, File)
          IN  hit \/ pc' = (IF pc = "poll1" THEN "next1" ELSE "next2")]_vars
  /\ [][(pc \in {"next1", "next2"}) =>
          (sent' = Append(sent, Request("POST", "/voiceover/next", NoBody))
             /\ pc' \notin {"next1", "next2"})]_vars

\* step 4.1 was left after two advances by a poll that reported failure
C6_Witness ==
  /\ prog = "test" /\ pc = "after1" /\ ~open_icon_found
  /\ navigation_attempts = 2
  /\ PollFailed

----------------------------------------------------------------------------
(* C7 *)

\* POST /voiceover/start has just returned success
Started ==
  /\ prog \in {"test", "demo"}
  /\ JustSent("/voiceover/start")
  /\ ~Raises(last) /\ Successful(last)

\* POST /voiceover/stop was the last request and the run is over
Stopped == pc = "done" /\ JustSent("/voiceover/stop")

----------------------------------------------------------------------------
(* C8 *)

\* the endpoint and the JSON payload documented for an action of a command
Documented(c) ==
  LET action == Get(c, "action", None)
      arg(k) == IF k \in DOMAIN c THEN c[k] ELSE Str(<<>>)
  IN  CASE action = Str(a_type) ->
             <<"/voiceover/type", Dict([text |-> arg("text")])>>
        [] action = Str(a_navigate_next) -> <<"/voiceover/next", Dict(<<>>)>>
        [] action = Str(a_navigate_previous) -> <<"/voiceover/previous", Dict(<<>>)>>
        [] action = Str(a_click) -> <<"/voiceover/click", Dict(<<>>)>>
        [] action = Str(a_open_app) ->
             <<"/system/open-app", Dict([appName |-> arg("app_name")])>>
        [] action = Str(a_press_key) ->
             <<"/system/press-key", Dict([key |-> arg("key")])>>
        [] OTHER -> <<>>

\* C8: execute_llm_command issues exactly one POST to the endpoint of the
\* action with the payload of the command and returns the result of that
\* call; for any other or missing action it issues nothing and returns
\* success = false with error "Unknown action: <action>".
C8_DispatchOneToOne ==
  (prog = "exec" /\ pc = "done") =>
    IF Documented(cmd) = <<>>
      THEN /\ sent = <<>>
           /\ ret = VoiceOverResponse(Bool(FALSE), None, None, None,
                      Str(<<"U", "n", "k", "n", "o", "w", "n", " ", "a", "c",
                            "t", "i", "o", "n", ":", " ">>
                          \o (IF "action" \in DOMAIN cmd THEN cmd["action"].s
                              ELSE <<"N", "o", "n", "e">>)))
      ELSE /\ sent = <<Request("POST", Documented(cmd)[1], Documented(cmd)[2])>>
           /\ ret = make_request(Call(POST, Documented(cmd)[1], Documented(cmd)[2]),
                                 last)

\* navigate_previous was dispatched to POST /voiceover/previous and the
\* server's success came back
C8_Witness ==
  /\ prog = "exec" /\ pc = "done"
  /\ Get(cmd, "action", None) = Str(a_navigate_previous)
  /\ sent = <<Request("POST", "/voiceover/previous", Dict(<<>>))>>
  /\ ret.success = Bool(TRUE)

----------------------------------------------------------------------------
(* C9 *)

\* this step issues POST /voiceover/click
IssuesClick ==
  /\ prog = "test"
  /\ Len(sent') = Len(sent) + 1
  /\ Endpoint(sent'[Len(sent')]) = "/voiceover/click"

\* the text of the poll just answered holds the keyword of the loop whose
\* click stands at position p
MatchedAt(p) ==
  \/ /\ p = "click1"
     /\ ContainsIgnoringCase(current_item(last).s, ShowMore)
  \/ /\ p = "click2"
     /\ ContainsIgnoringCase(current_item(last).s, Upload)
     /\ ContainsIgnoringCase(current_item(last).s, File)

\* C9: a click is issued only right after a poll whose successful answer
\* matched the keyword of the loop; steps 4.1 and 4.2 click at most once,
\* step 4.3 never; the mouse fallback issues no request.
C9_ClickOnlyAfterMatch ==
  /\ [][IssuesClick =>
          (JustSent("/voiceover/current") /\ PolledText /\ MatchedAt(pc))]_vars
  /\ [](prog = "test" => Count(sent, "/voiceover/click") <= 1)
  /\ [](pc \in {"poll3", "next3", "after3"} => Count(sent, "/voiceover/click") = 0)
  /\ [][pc = "mouse" => sent' = sent]_vars

\* the click of step 4.2 was refused by the server and the mouse fallback ran
C9_Witness ==
  /\ prog = "test" /\ pc = "after2" /\ upload_control_found
  /\ JustSent("/voiceover/click")
  /\ ~Successful(last)
  /\ Count(sent, "/voiceover/click") = 1

----------------------------------------------------------------------------
(* C10 *)

\* C10: when GET /health is answered with a JSON object carrying only
\* voiceOverRunning, health_check returns success = true and __main__ goes
\* on to execute its example command.
C10_HealthCheckSucceeds ==
  (/\ prog = "main"
   /\ sent = <<Request("GET", "/health", NoBody)>>
   /\ last.kind = "http" /\ last.body.t = "dict"
   /\ DOMAIN last.body.d = {"voiceOverRunning"}) =>
    /\ ret.success = Bool(TRUE)
    /\ pc = "exec"

====
